---- MODULE Spec2Model ----
(***************************************************************************)
(* Model of src/vcf.rs: load_vcf and the functions it drives               *)
(* (get_vrs_str_field, get_vrs_pos, iter_vrs_attrs, vrs_id_to_vrsix,       *)
(* write_data_to_file).                                                    *)
(*                                                                         *)
(* Strings are sequences of one-character strings, so that strip_prefix,   *)
(* starts_with, str::parse::<i32> and format! are computed, not assumed.   *)
(***************************************************************************)
EXTENDS Integers, Sequences, FiniteSets, TLC

\* ------------------------------------------------------------------------
\* Bounds of the model
\* ------------------------------------------------------------------------
\* longest input file, in records, built from the NarrowRecords
MaxRecords == 2
\* longest identifier suffix drawn for the single-record inputs
MaxSuffix == 2
\* write/flush failures the file system may inject in one behaviour
MaxFailures == 1
\* invocations of load_vcf on the same output file
MaxRuns == 2
\* longest type token and suffix, in characters, of the identifiers handed to
\* vrs_id_to_vrsix on its own
MaxIdLen == 4
\* longest array of positions handed to the numeric extractors on their own
MaxValues == 2

\* ------------------------------------------------------------------------
\* Integer widths
\* ------------------------------------------------------------------------
I32Max == 2147483647
I32Min == -I32Max - 1

\* ------------------------------------------------------------------------
\* Strings
\* ------------------------------------------------------------------------
DigitChars == <<"0", "1", "2", "3", "4", "5", "6", "7", "8", "9">>

IsDigit(c) == \E i \in 1..10 : DigitChars[i] = c

DigitVal(c) == CHOOSE i \in 0..9 : DigitChars[i + 1] = c

RECURSIVE NatToString(_)
\* Display of a non-negative integer, as format!("{}") prints it
NatToString(n) ==
    IF n < 10 THEN <<DigitChars[n + 1]>>
    ELSE NatToString(n \div 10) \o <<DigitChars[(n % 10) + 1]>>

\* Display of a signed integer
IntToString(n) == IF n < 0 THEN <<"-">> \o NatToString(-n) ELSE NatToString(n)

RECURSIVE DigitsValue(_, _)
\* value of a digit string, most significant digit first; acc is the value so far
DigitsValue(s, acc) ==
    IF s = <<>> THEN acc ELSE DigitsValue(Tail(s), acc * 10 + DigitVal(Head(s)))

\* str::parse::<i32>: an optional sign, then at least one digit, nothing else,
\* and the value must fit in 32 bits
parse_i32(s) ==
    LET signed == s # <<>> /\ Head(s) \in {"+", "-"}
        digits == IF signed THEN Tail(s) ELSE s
        wellformed == digits # <<>> /\ \A i \in 1..Len(digits) : IsDigit(digits[i])
        mag == IF wellformed THEN DigitsValue(digits, 0) ELSE 0
        v == IF signed /\ Head(s) = "-" THEN -mag ELSE mag
    IN  IF wellformed /\ v >= I32Min /\ v <= I32Max
        THEN [ok |-> TRUE, v |-> v]
        ELSE [ok |-> FALSE, v |-> 0]

starts_with(s, p) == Len(s) >= Len(p) /\ SubSeq(s, 1, Len(p)) = p

\* str::strip_prefix: Some(rest) or None
strip_prefix(s, p) ==
    IF starts_with(s, p)
    THEN [some |-> TRUE, rest |-> SubSeq(s, Len(p) + 1, Len(s))]
    ELSE [some |-> FALSE, rest |-> <<>>]

Ga4ghPrefix == <<"g", "a", "4", "g", "h", ":">>
VaPrefix == <<"V", "A", ".">>

\* ------------------------------------------------------------------------
\* VariationType::to_id and VrsAlleleAttrs::vrs_id_to_vrsix
\* ------------------------------------------------------------------------
\* VariationType::Allele.to_id() is Ok(1)
to_id == 1

\* self.vrs_id.strip_prefix("ga4gh:").unwrap_or(&self.vrs_id), without the strip
no_namespace_kept(vrs_id) == vrs_id

\* self.vrs_id.strip_prefix("ga4gh:").unwrap_or(&self.vrs_id)
no_namespace(vrs_id) ==
    LET st == strip_prefix(vrs_id, Ga4ghPrefix)
    IN  IF st.some THEN st.rest ELSE vrs_id

\* an unrecognized identifier handed back as it came, as an Ok value
vrs_id_to_vrsix_passthrough(vrs_id) ==
    LET s == no_namespace(vrs_id)
    IN  IF starts_with(s, VaPrefix)
        THEN [ok |-> TRUE,
              v |-> IntToString(to_id) \o strip_prefix(s, VaPrefix).rest,
              err |-> "none"]
        ELSE [ok |-> TRUE, v |-> s, err |-> "none"]

\* Ok(compact form) or Err(VcfError::TmpErr)
vrs_id_to_vrsix(vrs_id) ==
    LET s == no_namespace(vrs_id)
    IN  IF starts_with(s, VaPrefix)
        THEN [ok |-> TRUE,
              v |-> IntToString(to_id) \o strip_prefix(s, VaPrefix).rest,
              err |-> "none"]
        ELSE [ok |-> FALSE, v |-> <<>>, err |-> "TmpErr"]

\* ------------------------------------------------------------------------
\* INFO field values, as info.get(header, name) returns them
\* ------------------------------------------------------------------------
\* None: the field is not in the record
Absent == [kind |-> "absent", atype |-> "none", elems |-> <<>>]
\* Some(Ok(Some(v))) with v not an array
Scalar == [kind |-> "scalar", atype |-> "none", elems |-> <<>>]
\* Some(Ok(Some(InfoValue::Array(a)))), a of the array type t
Arr(t, es) == [kind |-> "array", atype |-> t, elems |-> es]

\* array elements: Ok(Some(v)), Ok(None), Err(_)
IntE(n) == [tag |-> "val", num |-> n, text |-> <<>>]
StrE(s) == [tag |-> "val", num |-> 0, text |-> s]
NullE == [tag |-> "null", num |-> 0, text |-> <<>>]
ErrE == [tag |-> "err", num |-> 0, text |-> <<>>]

\* Result values of the extractors: Ok(vec), Err(e), or a panic (an unwrap)
OkRes(v) == [res |-> "ok", val |-> v, err |-> "none"]
ErrRes(e) == [res |-> "err", val |-> <<>>, err |-> e]
PanicRes == [res |-> "panic", val |-> <<>>, err |-> "none"]

\* ------------------------------------------------------------------------
\* get_vrs_str_field
\* ------------------------------------------------------------------------
\* Ok(Some(cow)) => the string, Ok(None) => ""
str_element(e) == IF e.tag = "val" THEN e.text ELSE <<>>

get_vrs_str_field(field) ==
    IF field.kind = "array"
    THEN IF field.atype = "String"
         THEN IF \E i \in 1..Len(field.elems) : field.elems[i].tag = "err"
              THEN ErrRes("ParseFailure: Individual array element failed to parse")
              ELSE OkRes([i \in 1..Len(field.elems) |-> str_element(field.elems[i])])
         ELSE ErrRes("ParseFailure: Failed to parse as array of strings")
    ELSE ErrRes("ParseFailure: Failed to parse as array")

\* ------------------------------------------------------------------------
\* get_vrs_pos
\* ------------------------------------------------------------------------
\* Ok(None) of a position array mapped to a default of 0
pos_null_defaulted == OkRes(0)

\* Ok(None) => Err(VcfError::TmpErr)
pos_null == ErrRes("TmpErr")

\* one element of an Integer array
int_element(e) ==
    CASE e.tag = "val" -> OkRes(e.num)
      [] e.tag = "null" -> pos_null
      [] OTHER -> ErrRes("ParseFailure: Individual array element failed to parse")

\* the text parsed as an unsigned number: a sign is not accepted
text_element_unsigned(e) ==
    CASE e.tag = "val" ->
            IF parse_i32(e.text).ok /\ Head(e.text) \notin {"+", "-"}
            THEN OkRes(parse_i32(e.text).v) ELSE PanicRes
      [] e.tag = "null" -> pos_null
      [] OTHER -> ErrRes("ParseFailure: Individual array element failed to parse")

\* one element of a String array: cow.to_string().parse::<i32>().unwrap()
text_element(e) ==
    CASE e.tag = "val" ->
            IF parse_i32(e.text).ok THEN OkRes(parse_i32(e.text).v) ELSE PanicRes
      [] e.tag = "null" -> pos_null
      [] OTHER -> ErrRes("ParseFailure: Individual array element failed to parse")

RECURSIVE collect(_, _)
\* iter.collect::<Result<Vec<_>, _>>() over the mapped elements rs: the map is
\* lazy, so the first element that is not Ok decides (an Err stops the
\* iteration, a panic unwinds), and the elements after it are never mapped
collect(rs, acc) ==
    IF rs = <<>> THEN OkRes(acc)
    ELSE IF Head(rs).res = "ok" THEN collect(Tail(rs), Append(acc, Head(rs).val))
    ELSE Head(rs)

get_vrs_pos(field) ==
    IF field.kind = "array"
    THEN CASE field.atype = "Integer" ->
                collect([i \in 1..Len(field.elems) |-> int_element(field.elems[i])], <<>>)
           [] field.atype = "String" ->
                collect([i \in 1..Len(field.elems) |-> text_element(field.elems[i])], <<>>)
           [] OTHER -> ErrRes("ParseFailure: Failed to parse as array of ints")
    ELSE ErrRes("TmpErr")

\* ------------------------------------------------------------------------
\* parse.rs: get_int_info_field
\* ------------------------------------------------------------------------
\* one element of an Integer array: i.unwrap().unwrap_or_default()
info_int_element(e) ==
    CASE e.tag = "val" -> OkRes(e.num)
      [] e.tag = "null" -> OkRes(0)
      [] OTHER -> PanicRes

\* one element of a String array: cow_str.unwrap().unwrap_or_default()
\* .to_string(), then s.parse::<i32>().map_err(..)
info_text_element(e) ==
    CASE e.tag = "err" -> PanicRes
      [] OTHER ->
            LET p == parse_i32(IF e.tag = "val" THEN e.text ELSE <<>>)
            IN  IF p.ok THEN OkRes(p.v) ELSE ErrRes("Unable to parse int")

get_int_info_field(field) ==
    IF field.kind = "array"
    THEN CASE field.atype = "Integer" ->
                collect([i \in 1..Len(field.elems) |-> info_int_element(field.elems[i])],
                        <<>>)
           [] field.atype = "String" ->
                collect([i \in 1..Len(field.elems) |-> info_text_element(field.elems[i])],
                        <<>>)
           [] OTHER -> ErrRes("Expected array variable of strings or integers")
    ELSE ErrRes("Expected Array variant")

\* ------------------------------------------------------------------------
\* InfoFieldTranspose::iter_vrs_attrs
\* ------------------------------------------------------------------------
Min2(a, b) == IF a < b THEN a ELSE b

\* a zip that pairs element i of the ids with element n + 1 - i of the others
multizip_reversed(a, b, c, d) ==
    LET n == Min2(Min2(Len(a), Len(b)), Min2(Len(c), Len(d)))
    IN  [i \in 1..n |-> <<a[i], b[n + 1 - i], c[n + 1 - i], d[i]>>]

\* itertools::multizip: stops at the end of the shortest iterator
multizip(a, b, c, d) ==
    LET n == Min2(Min2(Len(a), Len(b)), Min2(Len(c), Len(d)))
    IN  [i \in 1..n |-> <<a[i], b[i], c[i], d[i]>>]

VrsAlleleAttrs(t) ==
    [vrs_id |-> t[1], vrs_start |-> t[2], vrs_end |-> t[3], vrs_state |-> t[4]]

NoAttrs == [vrs_id |-> <<>>, vrs_start |-> 0, vrs_end |-> 0, vrs_state |-> <<>>]

\* items of the stream: Ok(attrs) and Err(e)
OkItem(a) == [ok |-> TRUE, attrs |-> a, err |-> "none"]
ErrItem(e) == [ok |-> FALSE, attrs |-> NoAttrs, err |-> e]

\* The stream of one record's INFO fields, or a panic. The four fields are
\* extracted in the order ids, starts, ends, states, and the first failure
\* returns a stream of that one error before the later fields are looked at.
iter_vrs_attrs(info) ==
    LET ids == get_vrs_str_field(info.VRS_Allele_IDs)
        starts == get_vrs_pos(info.VRS_Starts)
        ends == get_vrs_pos(info.VRS_Ends)
        states == get_vrs_str_field(info.VRS_States)
    IN  CASE ids.res = "err" -> OkRes(<<ErrItem(ids.err)>>)
          [] ids.res = "ok" /\ starts.res = "panic" -> PanicRes
          [] ids.res = "ok" /\ starts.res = "err" -> OkRes(<<ErrItem(starts.err)>>)
          [] ids.res = "ok" /\ starts.res = "ok" /\ ends.res = "panic" -> PanicRes
          [] ids.res = "ok" /\ starts.res = "ok" /\ ends.res = "err" ->
                OkRes(<<ErrItem(ends.err)>>)
          [] ids.res = "ok" /\ starts.res = "ok" /\ ends.res = "ok"
                /\ states.res = "err" -> OkRes(<<ErrItem(states.err)>>)
          [] OTHER ->
                LET z == multizip(ids.val, starts.val, ends.val, states.val)
                IN  OkRes([i \in 1..Len(z) |-> OkItem(VrsAlleleAttrs(z[i]))])

\* ------------------------------------------------------------------------
\* FileData and the four lines of load_vcf
\* ------------------------------------------------------------------------
\* let uri_id: u8 = 1
uri_id == 1

NoData == [chrom |-> <<>>, pos |-> 0, uri_id |-> 0, vrs_hash |-> <<>>,
           vrs_start |-> 0, vrs_end |-> 0, vrs_state |-> <<>>]

FileData(chrom, pos, hash, a) ==
    [chrom |-> chrom, pos |-> pos, uri_id |-> uri_id, vrs_hash |-> hash,
     vrs_start |-> a.vrs_start, vrs_end |-> a.vrs_end, vrs_state |-> a.vrs_state]

\* the four format! calls with the start line and the identifier line exchanged
format_line_swapped(n, d, c) ==
    CASE n = 1 -> d.chrom \o <<"-">> \o IntToString(d.pos) \o <<"-">>
                    \o IntToString(d.uri_id) \o <<"\n">>
      [] n = 2 -> IntToString(d.vrs_start) \o <<"-">> \o IntToString(c) \o <<"\n">>
      [] n = 3 -> d.vrs_hash \o IntToString(c) \o <<"\n">>
      [] OTHER -> IntToString(d.vrs_end) \o <<"-">> \o IntToString(c) \o <<"\n">>

\* line n (1..4) of the group of data d under the counter c
format_line(n, d, c) ==
    CASE n = 1 -> d.chrom \o <<"-">> \o IntToString(d.pos) \o <<"-">>
                    \o IntToString(d.uri_id) \o <<"\n">>
      [] n = 2 -> d.vrs_hash \o IntToString(c) \o <<"\n">>
      [] n = 3 -> IntToString(d.vrs_start) \o <<"-">> \o IntToString(c) \o <<"\n">>
      [] OTHER -> IntToString(d.vrs_end) \o <<"-">> \o IntToString(c) \o <<"\n">>

\* count += 1 left out
count_kept(c) == c

\* count += 1
count_next(c) == c + 1

\* ------------------------------------------------------------------------
\* Inputs: the records of the VCF
\* ------------------------------------------------------------------------
VaAbc == VaPrefix \o <<"a", "b", "c">>
CnXyz == Ga4ghPrefix \o <<"C", "N", ".", "x", "y", "z">>

Rec(chrom, start, ids, starts, ends, states) ==
    [valid |-> TRUE, chrom |-> chrom, variant_start |-> start,
     info |-> [VRS_Allele_IDs |-> ids, VRS_Starts |-> starts,
               VRS_Ends |-> ends, VRS_States |-> states]]

\* the record of the end-to-end example
ExampleRecord ==
    Rec(<<"1">>, 1000,
        Arr("String", <<StrE(Ga4ghPrefix \o VaAbc)>>),
        Arr("Integer", <<IntE(999)>>),
        Arr("Integer", <<IntE(1000)>>),
        Arr("String", <<StrE(<<"A">>)>>))

WithIds(f) == [ExampleRecord EXCEPT !.info.VRS_Allele_IDs = f]
WithStarts(f) == [ExampleRecord EXCEPT !.info.VRS_Starts = f]
WithEnds(f) == [ExampleRecord EXCEPT !.info.VRS_Ends = f]
WithStates(f) == [ExampleRecord EXCEPT !.info.VRS_States = f]

\* two alleles, positions in the legacy string form
TwoAlleleRecord ==
    Rec(<<"X">>, 7,
        Arr("String", <<StrE(VaPrefix \o <<"a">>), StrE(Ga4ghPrefix \o VaPrefix \o <<"b">>)>>),
        Arr("String", <<StrE(<<"1", "0">>), StrE(<<"2", "0">>)>>),
        Arr("Integer", <<IntE(11), IntE(21)>>),
        Arr("String", <<StrE(<<"A">>), StrE(<<"T">>)>>))

\* a record the reader fails to read: records.try_next() is Err
MalformedRecord == [ExampleRecord EXCEPT !.valid = FALSE]

\* a record without a position: variant_start() is None
NoPositionRecord == [ExampleRecord EXCEPT !.variant_start = 0]

NullStartRecord == WithStarts(Arr("Integer", <<NullE>>))
NullStateRecord == WithStates(Arr("String", <<NullE>>))
UnknownTypeRecord == WithIds(Arr("String", <<StrE(CnXyz)>>))
\* three identifiers for one start, one end and one state
LongIdsRecord ==
    WithIds(Arr("String", <<StrE(VaAbc), StrE(VaPrefix \o <<"d">>), StrE(VaPrefix \o <<"e">>)>>))

\* no allele at all: four empty arrays
EmptyArraysRecord ==
    Rec(<<"2">>, 5, Arr("String", <<>>), Arr("Integer", <<>>),
        Arr("Integer", <<>>), Arr("String", <<>>))

ThreeAlleleRecord ==
    Rec(<<"Y">>, 30,
        Arr("String", <<StrE(VaPrefix \o <<"a">>), StrE(VaPrefix \o <<"b">>),
                        StrE(VaPrefix \o <<"c">>)>>),
        Arr("Integer", <<IntE(1), IntE(2), IntE(3)>>),
        Arr("String", <<StrE(<<"4">>), StrE(<<"5">>), StrE(<<"6">>)>>),
        Arr("String", <<StrE(<<"A">>), NullE, StrE(<<"G">>)>>))

Abc123 == <<"a", "b", "c", "1", "2", "3">>

\* the identifiers "VA.abc123" and "ga4gh:VA.abc123" in one record
NamespaceExampleRecord ==
    [TwoAlleleRecord EXCEPT !.info.VRS_Allele_IDs =
        Arr("String", <<StrE(VaPrefix \o Abc123),
                        StrE(Ga4ghPrefix \o VaPrefix \o Abc123)>>)]

\* the records the multi-record inputs are built from
NarrowRecords ==
    {ExampleRecord, TwoAlleleRecord, NullStartRecord, UnknownTypeRecord}

SuffixAlphabet == {"a", "V", "."}
Suffixes == UNION {[1..n -> SuffixAlphabet] : n \in 0..MaxSuffix}

\* identifier arrays of the single-record inputs
IdFields ==
    {Arr("String", <<StrE(VaPrefix \o s)>>) : s \in Suffixes}
    \cup {Arr("String", <<StrE(Ga4ghPrefix \o VaPrefix \o s)>>) : s \in Suffixes}
    \cup {Arr("String", <<StrE(s)>>) : s \in Suffixes}
    \cup {Arr("String", <<StrE(Ga4ghPrefix \o s)>>) : s \in Suffixes}
    \cup {Arr("String", <<StrE(VaPrefix \o <<"a">>), NullE>>),
          Arr("String", <<NullE>>),
          Arr("String", <<ErrE>>),
          Arr("String", <<>>),
          Arr("Integer", <<IntE(1)>>),
          Absent, Scalar}

\* two-allele records whose two identifiers differ only in the namespace
BothFormsRecords ==
    {[TwoAlleleRecord EXCEPT !.info.VRS_Allele_IDs =
         Arr("String", <<StrE(VaPrefix \o s), StrE(Ga4ghPrefix \o VaPrefix \o s)>>)]
     : s \in Suffixes}

\* position arrays of the single-record inputs
PosFields ==
    {Arr("Integer", <<IntE(999)>>),
     Arr("Integer", <<IntE(-5)>>),
     Arr("Integer", <<IntE(10), IntE(20)>>),
     Arr("Integer", <<>>),
     Arr("Integer", <<NullE>>),
     Arr("Integer", <<ErrE>>),
     Arr("Integer", <<IntE(10), NullE>>),
     Arr("String", <<StrE(<<"9", "9", "9">>)>>),
     Arr("String", <<StrE(<<"-", "5">>)>>),
     Arr("String", <<StrE(<<"1", "0">>), StrE(<<"2", "0">>)>>),
     Arr("String", <<StrE(<<"x">>)>>),
     Arr("String", <<StrE(<<>>)>>),
     Arr("String", <<NullE>>),
     Arr("String", <<NullE, StrE(<<"x">>)>>),
     Arr("String", <<StrE(<<"x">>), NullE>>),
     Arr("String", <<ErrE>>),
     Arr("Float", <<>>),
     Absent, Scalar}

\* state arrays of the single-record inputs
StateFields ==
    {Arr("String", <<StrE(<<"A">>)>>),
     Arr("String", <<NullE>>),
     Arr("String", <<StrE(<<"A">>), StrE(<<"T">>)>>),
     Arr("String", <<ErrE>>),
     Arr("Integer", <<IntE(1)>>),
     Absent}

\* the records of the single-record inputs: the example record with one field
\* replaced, the two-allele records, and a record without a position
WideRecords ==
    {WithIds(f) : f \in IdFields}
    \cup {WithStarts(f) : f \in PosFields}
    \cup {WithEnds(f) : f \in PosFields}
    \cup {WithStates(f) : f \in StateFields}
    \cup {[TwoAlleleRecord EXCEPT !.info.VRS_Starts = f] : f \in PosFields}
    \cup {[TwoAlleleRecord EXCEPT !.info.VRS_States = f] : f \in StateFields}
    \cup BothFormsRecords
    \cup {NoPositionRecord, MalformedRecord, LongIdsRecord, NullStateRecord,
          EmptyArraysRecord, ThreeAlleleRecord, NamespaceExampleRecord}

SeqsUpTo(S, n) == UNION {[1..m -> S] : m \in 0..n}

\* the input files
VcfFiles == SeqsUpTo(NarrowRecords, MaxRecords) \cup {<<r>> : r \in WideRecords}

\* ------------------------------------------------------------------------
\* State of one run of load_vcf and of the output file
\* ------------------------------------------------------------------------
VARIABLES
    records,    \* the records the reader yields, in order
    idx,        \* number of records taken from the reader
    stream,     \* what is left of the current record's stream of attrs
    taken,      \* number of items taken from the current record's stream
    attrs,      \* the item last taken from the stream
    pc,         \* "read", "next", "write", or how the run ended:
                \* "done" (Ok), "err" (Err), "panicked", "crashed"
    panic,      \* the call that panicked
    ln,         \* the line (1..4) of the group to write next
    data,       \* the FileData being written
    count,      \* let mut count
    out_file,   \* the bytes of the output file
    log,        \* what eprintln! printed
    failures,   \* write/flush failures so far
    run,        \* number of the invocation of load_vcf
    alleles,    \* history: one entry per allele that reached the writes
    cx_id,      \* the vrs_id of a VrsAlleleAttrs compacted on its own
    cx_out,     \* what vrs_id_to_vrsix returned for cx_id
    ex_values,  \* the positions an INFO field is built from
    ex_field,   \* the INFO field handed to the numeric extractors
    ex_pos,     \* what get_vrs_pos returned for ex_field
    ex_int      \* what get_int_info_field returned for ex_field

\* the state of a run of load_vcf
loadvars == <<records, idx, stream, taken, attrs, pc, panic, ln, data, count,
              out_file, log, failures, run, alleles>>

\* the state of the functions called on their own
compactvars == <<cx_id, cx_out>>
extractvars == <<ex_values, ex_field, ex_pos, ex_int>>
purevars == <<compactvars, extractvars>>

vars == <<records, idx, stream, taken, attrs, pc, panic, ln, data, count,
          out_file, log, failures, run, alleles, cx_id, cx_out,
          ex_values, ex_field, ex_pos, ex_int>>

\* vrs_id_to_vrsix not called yet
NotCompacted == [ok |-> FALSE, v |-> <<>>, err |-> "not called"]

\* an extractor not called yet
NotExtracted == [res |-> "none", val |-> <<>>, err |-> "not called"]

CompactIdle ==
    /\ cx_id = <<>>
    /\ cx_out = NotCompacted

ExtractIdle ==
    /\ ex_values = <<>>
    /\ ex_field = Absent
    /\ ex_pos = NotExtracted
    /\ ex_int = NotExtracted

\* no function is being called on its own
PureIdle == CompactIdle /\ ExtractIdle

Init ==
    /\ records \in VcfFiles
    /\ idx = 0
    /\ stream = <<>>
    /\ taken = 0
    /\ attrs = ErrItem("none")
    /\ pc = "read"
    /\ panic = "none"
    /\ ln = 0
    /\ data = NoData
    /\ count = 0
    /\ out_file = <<>>
    /\ log = <<>>
    /\ failures = 0
    /\ run = 1
    /\ alleles = <<>>
    /\ PureIdle

\* the record in hand
record == records[idx]

\* record.variant_start().unwrap().unwrap().get() as u32; a position is
\* 1..2^31-1 in a VCF, where the cast keeps the value
pos_of(r) == r.variant_start

\* ------------------------------------------------------------------------
\* write_data_to_file
\* ------------------------------------------------------------------------
WriteOutcomes == {"ok", "write_err", "flush_err"}

\* The file after the call and the Result it returns. write_all failing leaves
\* the file as it was; flush failing reports an error for bytes that were
\* handed to the file.
write_data_to_file(file, line, outcome) ==
    CASE outcome = "ok" -> [file |-> file \o line, ok |-> TRUE]
      [] outcome = "flush_err" -> [file |-> file \o line, ok |-> FALSE]
      [] OTHER -> [file |-> file, ok |-> FALSE]

\* ------------------------------------------------------------------------
\* load_vcf
\* ------------------------------------------------------------------------
\* while let Some(record) = records.try_next().await.map_err(..)?
\* followed by the locus and record.iter_vrs_attrs(&header)
ReadNext ==
    /\ pc = "read"
    /\ IF idx = Len(records)
       THEN /\ pc' = "done"
            /\ UNCHANGED <<idx, stream, taken, panic>>
       ELSE LET r == records[idx + 1]
                it == iter_vrs_attrs(r.info)
            IN  /\ idx' = idx + 1
                /\ taken' = 0
                /\ CASE ~r.valid ->
                          /\ pc' = "err"
                          /\ UNCHANGED <<stream, panic>>
                     [] r.valid /\ r.variant_start = 0 ->
                          /\ pc' = "panicked"
                          /\ panic' = "variant_start"
                          /\ UNCHANGED stream
                     [] r.valid /\ r.variant_start # 0 /\ it.res = "panic" ->
                          /\ pc' = "panicked"
                          /\ panic' = "parse_i32"
                          /\ UNCHANGED stream
                     [] OTHER ->
                          /\ pc' = "next"
                          /\ stream' = it.val
                          /\ UNCHANGED panic
    /\ UNCHANGED purevars
    /\ UNCHANGED <<records, attrs, ln, data, count, out_file, log, failures,
                   run, alleles>>

\* while let Some(attrs_result) = stream.next().await, and the match up to
\* the first write
NextAttr ==
    /\ pc = "next"
    /\ IF stream = <<>>
       THEN /\ pc' = "read"
            /\ UNCHANGED <<stream, taken, attrs, panic, ln, data, log, alleles>>
       ELSE LET item == Head(stream)
                hash == vrs_id_to_vrsix(item.attrs.vrs_id)
            IN  /\ stream' = Tail(stream)
                /\ taken' = taken + 1
                /\ attrs' = item
                /\ CASE ~item.ok ->
                          /\ log' = Append(log, item.err)
                          /\ UNCHANGED <<pc, panic, ln, data, alleles>>
                     [] item.ok /\ ~hash.ok ->
                          /\ pc' = "panicked"
                          /\ panic' = "vrs_id_to_vrsix"
                          /\ UNCHANGED <<ln, data, log, alleles>>
                     [] OTHER ->
                          /\ pc' = "write"
                          /\ ln' = 1
                          /\ data' = FileData(record.chrom, pos_of(record),
                                              hash.v, item.attrs)
                          /\ alleles' = Append(alleles,
                                [run |-> run, rec |-> idx, k |-> taken + 1,
                                 count |-> count, offset |-> Len(out_file),
                                 res |-> <<>>])
                          /\ UNCHANGED <<panic, log>>
    /\ UNCHANGED <<records, idx, count, out_file, failures, run>>
    /\ UNCHANGED purevars

\* let _ = write_data_to_file(&mut out_file, line).await for line ln, and
\* count += 1 after the fourth
Write(outcome) ==
    /\ pc = "write"
    /\ LET w == write_data_to_file(out_file, format_line(ln, data, count), outcome)
       IN  /\ out_file' = w.file
           /\ alleles' = [alleles EXCEPT ![Len(alleles)].res = Append(@, w.ok)]
           /\ failures' = IF w.ok THEN failures ELSE failures + 1
    /\ IF ln < 4
       THEN /\ ln' = ln + 1
            /\ UNCHANGED <<pc, count>>
       ELSE /\ ln' = 0
            /\ count' = count_next(count)
            /\ pc' = "next"
    /\ UNCHANGED <<records, idx, stream, taken, attrs, panic, data, log, run>>
    /\ UNCHANGED purevars

WriteOk == Write("ok")

WriteFail ==
    /\ failures < MaxFailures
    /\ \E outcome \in WriteOutcomes \ {"ok"} : Write(outcome)

\* the process is killed at an await point
Crash ==
    /\ pc \in {"read", "next", "write"}
    /\ pc' = "crashed"
    /\ UNCHANGED purevars
    /\ UNCHANGED <<records, idx, stream, taken, attrs, panic, ln, data, count,
                   out_file, log, failures, run, alleles>>

\* load_vcf is invoked again on the same input and the same output file:
\* the reader starts over, count is 0, the file is opened with append(true)
Rerun ==
    /\ pc = "crashed"
    /\ run < MaxRuns
    /\ run' = run + 1
    /\ pc' = "read"
    /\ idx' = 0
    /\ stream' = <<>>
    /\ taken' = 0
    /\ attrs' = ErrItem("none")
    /\ ln' = 0
    /\ data' = NoData
    /\ count' = 0
    /\ log' = <<>>
    /\ UNCHANGED <<records, panic, out_file, failures, alleles>>
    /\ UNCHANGED purevars

Next == ReadNext \/ NextAttr \/ WriteOk \/ WriteFail \/ Crash

Spec == Init /\ [][Next]_vars

NextRerun == ReadNext \/ NextAttr \/ WriteOk \/ WriteFail \/ Crash \/ Rerun

SpecRerun == Init /\ [][NextRerun]_vars

\* ------------------------------------------------------------------------
\* vrs_id_to_vrsix called on its own
\* ------------------------------------------------------------------------
\* no run of load_vcf: nothing read, nothing written
LoadIdle ==
    /\ records = <<>>
    /\ idx = 0
    /\ stream = <<>>
    /\ taken = 0
    /\ attrs = ErrItem("none")
    /\ pc = "idle"
    /\ panic = "none"
    /\ ln = 0
    /\ data = NoData
    /\ count = 0
    /\ out_file = <<>>
    /\ log = <<>>
    /\ failures = 0
    /\ run = 1
    /\ alleles = <<>>

IdAlphabet == {"V", "A", "C", "."}
IdTails == UNION {[1..n -> IdAlphabet] : n \in 0..MaxIdLen}

\* the identifiers: any text over the alphabet, with and without the
\* namespace, once and twice, and the identifiers of the examples
CompactIds ==
    IdTails
    \cup {Ga4ghPrefix \o t : t \in IdTails}
    \cup {Ga4ghPrefix \o Ga4ghPrefix \o VaPrefix, CnXyz, Ga4ghPrefix \o VaAbc,
          <<"C", "N", ".", "x", "y", "z">>, <<"g", "a", "4", "g", "h">>,
          <<"v", "a", ".", "a">>}

InitCompact ==
    /\ LoadIdle
    /\ ExtractIdle
    /\ cx_id \in CompactIds
    /\ cx_out = NotCompacted

\* attrs.vrs_id_to_vrsix() for the attrs whose vrs_id is cx_id
Compact ==
    /\ cx_out = NotCompacted
    /\ cx_out' = vrs_id_to_vrsix(cx_id)
    /\ UNCHANGED cx_id
    /\ UNCHANGED extractvars
    /\ UNCHANGED loadvars

NextCompact == Compact

SpecCompact == InitCompact /\ [][NextCompact]_vars

\* ------------------------------------------------------------------------
\* get_vrs_pos and get_int_info_field called on their own
\* ------------------------------------------------------------------------
PosValues == {-I32Max, -5, 0, 7, 10, 20, 999, I32Max}
PosArrays == UNION {[1..n -> PosValues] : n \in 0..MaxValues}

\* the values as an Integer array
NativeField(vs) == Arr("Integer", [i \in 1..Len(vs) |-> IntE(vs[i])])

\* the values as the String array of their base-10 text
LegacyField(vs) == Arr("String", [i \in 1..Len(vs) |-> StrE(IntToString(vs[i]))])

InitExtract ==
    /\ LoadIdle
    /\ CompactIdle
    /\ ex_values \in PosArrays
    /\ ex_field \in {NativeField(ex_values), LegacyField(ex_values)}
    /\ ex_pos = NotExtracted
    /\ ex_int = NotExtracted

\* get_vrs_pos(info, header, field) for the field ex_field
ExtractPos ==
    /\ ex_pos = NotExtracted
    /\ ex_pos' = get_vrs_pos(ex_field)
    /\ UNCHANGED <<ex_values, ex_field, ex_int>>
    /\ UNCHANGED compactvars
    /\ UNCHANGED loadvars

\* get_int_info_field(info, header, field) for the field ex_field
ExtractInt ==
    /\ ex_int = NotExtracted
    /\ ex_int' = get_int_info_field(ex_field)
    /\ UNCHANGED <<ex_values, ex_field, ex_pos>>
    /\ UNCHANGED compactvars
    /\ UNCHANGED loadvars

NextExtract == ExtractPos \/ ExtractInt

SpecExtract == InitExtract /\ [][NextExtract]_vars

\* ------------------------------------------------------------------------
\* Properties
\* ------------------------------------------------------------------------
\* the four arrays of record r, as the extractors return them
ExtractedIds(r) == get_vrs_str_field(r.info.VRS_Allele_IDs)
ExtractedStarts(r) == get_vrs_pos(r.info.VRS_Starts)
ExtractedEnds(r) == get_vrs_pos(r.info.VRS_Ends)
ExtractedStates(r) == get_vrs_str_field(r.info.VRS_States)

AllExtracted(r) ==
    /\ ExtractedIds(r).res = "ok"
    /\ ExtractedStarts(r).res = "ok"
    /\ ExtractedEnds(r).res = "ok"
    /\ ExtractedStates(r).res = "ok"

\* the bytes of the group of allele k of record r under the counter c, written
\* out from section 4.4 of the design
GroupText(r, k, c) ==
    r.chrom \o <<"-">> \o IntToString(r.variant_start) \o <<"-", "1", "\n">>
    \o vrs_id_to_vrsix(ExtractedIds(r).val[k]).v \o IntToString(c) \o <<"\n">>
    \o IntToString(ExtractedStarts(r).val[k]) \o <<"-">> \o IntToString(c) \o <<"\n">>
    \o IntToString(ExtractedEnds(r).val[k]) \o <<"-">> \o IntToString(c) \o <<"\n">>

TextOf(g) == GroupText(records[g.rec], g.k, g.count)

AllWritten(g) == g.res = <<TRUE, TRUE, TRUE, TRUE>>

\* "1-1000-1", "1abc0", "999-0", "1000-0", each ended by a newline
ExampleOutput ==
    <<"1", "-", "1", "0", "0", "0", "-", "1", "\n",
      "1", "a", "b", "c", "0", "\n",
      "9", "9", "9", "-", "0", "\n",
      "1", "0", "0", "0", "-", "0", "\n">>

\* C1: every allele whose four writes succeeded has its four lines in the file,
\* contiguously from where the file ended when the allele began, in the order
\* locus, identifier+counter, start-counter, end-counter, under one counter
\* value and without the state; nothing else is appended for it (from where
\* it began to where the next allele began, or to the end of the file, the
\* file is just these four lines); and the example record alone gives exactly
\* the four example lines.
C1_FourLinesPerAllele ==
    /\ \A i \in DOMAIN alleles :
          LET g == alleles[i]
              \* where the next allele began, or else the end of the file
              next == IF i < Len(alleles) THEN alleles[i + 1].offset
                      ELSE Len(out_file)
          IN  AllWritten(g) => SubSeq(out_file, g.offset + 1, next) = TextOf(g)
    /\ (records = <<ExampleRecord>> /\ pc = "done" /\ failures = 0)
          => out_file = ExampleOutput

C1_Witness ==
    /\ records = <<ExampleRecord>>
    /\ pc = "done"
    /\ failures = 0
    /\ Len(alleles) = 1
    /\ AllWritten(alleles[1])

\* the entries of alleles that belong to the current run
ThisRun == {i \in DOMAIN alleles : alleles[i].run = run}

\* C2: in one run the counter starts at 0, a step either leaves it alone or
\* adds one, it adds one exactly in the step that issues the fourth line of
\* an allele, the alleles of the run carry the counters 0, 1, 2, ... in order (so
\* no value serves two alleles), and a record or stream item that is skipped
\* leaves it as it was.
C2_CounterMonotonic ==
    /\ [](/\ count = Cardinality({i \in ThisRun : Len(alleles[i].res) = 4})
          /\ \A i \in ThisRun :
                alleles[i].count = Cardinality({j \in ThisRun : j < i}))
    /\ [][/\ count' = count \/ count' = count + 1
          /\ (count' = count + 1) <=> (pc = "write" /\ ln = 4 /\ pc' = "next")
          /\ (pc \in {"read", "next"} /\ pc' # "write") => count' = count]_vars

C2_Witness ==
    /\ Len(records) = 2
    /\ records[1] = NullStartRecord
    /\ records[2] = TwoAlleleRecord
    /\ pc = "done"
    /\ count = 2
    /\ log # <<>>

\* C3: when the run is interrupted, every allele group is in the file whole or
\* not at all.
C3_CrashLeavesWholeGroups ==
    (pc = "crashed" /\ failures = 0) =>
        \A i \in DOMAIN alleles :
            LET g == alleles[i]
                last == g.offset + Len(TextOf(g))
            IN  \/ Len(out_file) = g.offset
                \/ /\ Len(out_file) >= last
                   /\ SubSeq(out_file, g.offset + 1, last) = TextOf(g)

\* C4: once a write or flush has failed, load_vcf has returned an error: it
\* has written no further line and has not advanced the counter.
C4_WriteFailureEndsRun == failures > 0 => pc = "err"

Lengths(r) ==
    {Len(ExtractedIds(r).val), Len(ExtractedStarts(r).val),
     Len(ExtractedEnds(r).val), Len(ExtractedStates(r).val)}

LengthMismatch(r) == AllExtracted(r) /\ Cardinality(Lengths(r)) > 1

\* C5: a record whose four arrays differ in length yields no attribute tuple
\* and no allele group.
C5_LengthMismatchFailsRecord ==
    (pc \in {"next", "write"} /\ LengthMismatch(record)) =>
        /\ \A i \in DOMAIN stream : ~stream[i].ok
        /\ \A i \in DOMAIN alleles : alleles[i].rec # idx

\* C6: load_vcf never panics over malformed numeric text or an unrecognized
\* variation type; such a record is skipped and the run goes on.
C6_RecordFailureContinues ==
    pc = "panicked" => panic \notin {"parse_i32", "vrs_id_to_vrsix"}

HasNullIn(f) == f.kind = "array" /\ \E i \in DOMAIN f.elems : f.elems[i].tag = "null"

HasNull(r) ==
    \/ HasNullIn(r.info.VRS_Allele_IDs)
    \/ HasNullIn(r.info.VRS_Starts)
    \/ HasNullIn(r.info.VRS_Ends)
    \/ HasNullIn(r.info.VRS_States)

HasNullPos(r) == HasNullIn(r.info.VRS_Starts) \/ HasNullIn(r.info.VRS_Ends)

C8_RerunNoDuplicates ==
    (/\ run = 2
     /\ pc = "done"
     /\ failures = 0
     /\ \A i \in DOMAIN alleles : AllWritten(alleles[i])) =>
        \A i, j \in DOMAIN alleles :
            i # j => /\ alleles[i].count # alleles[j].count
                     /\ <<alleles[i].rec, alleles[i].k>> # <<alleles[j].rec, alleles[j].k>>

\* C9: for four extracted arrays of one length n, the stream yields n tuples,
\* tuple i being read off element i of each array: the item taken last is
\* tuple number taken, and the items left are the tuples taken+1 .. n in order.
C9_TransposePositional ==
    pc \in {"next", "write"} =>
        LET ids == ExtractedIds(record)
            starts == ExtractedStarts(record)
            ends == ExtractedEnds(record)
            states == ExtractedStates(record)
            n == Len(ids.val)
            Tuple(i) == OkItem([vrs_id |-> ids.val[i], vrs_start |-> starts.val[i],
                                vrs_end |-> ends.val[i], vrs_state |-> states.val[i]])
        IN  (/\ ids.res = "ok" /\ starts.res = "ok"
             /\ ends.res = "ok" /\ states.res = "ok"
             /\ Len(starts.val) = n /\ Len(ends.val) = n /\ Len(states.val) = n) =>
                /\ taken + Len(stream) = n
                /\ \A i \in DOMAIN stream : stream[i] = Tuple(taken + i)
                /\ taken > 0 => attrs = Tuple(taken)

C9_Witness ==
    /\ records = <<ThreeAlleleRecord>>
    /\ pc = "write"
    /\ taken = 2
    /\ Len(stream) = 1

IsVaForm(id) == starts_with(id, VaPrefix) \/ starts_with(id, Ga4ghPrefix \o VaPrefix)

\* what follows "VA." or "ga4gh:VA." in id
SuffixOf(id) ==
    IF id[1] = "V" THEN SubSeq(id, 4, Len(id)) ELSE SubSeq(id, 10, Len(id))

\* C10: an identifier "VA."+s or "ga4gh:VA."+s is compacted, without a
\* failure, to "1" followed by s; "VA.abc123" and "ga4gh:VA.abc123" both give
\* "1abc123".
C10_CompactionNamespaceInsensitive ==
    (attrs.ok /\ IsVaForm(attrs.attrs.vrs_id)) =>
        /\ panic # "vrs_id_to_vrsix"
        /\ data.vrs_hash = <<"1">> \o SuffixOf(attrs.attrs.vrs_id)
        /\ SuffixOf(attrs.attrs.vrs_id) = Abc123
              => data.vrs_hash = <<"1", "a", "b", "c", "1", "2", "3">>

C10_Witness ==
    /\ records = <<NamespaceExampleRecord>>
    /\ pc = "done"
    /\ attrs.attrs.vrs_id = Ga4ghPrefix \o VaPrefix \o Abc123
    /\ data.vrs_hash = <<"1">> \o Abc123
    /\ SubSeq(out_file, 7, 13) = <<"1">> \o Abc123

\* the identifier without its "ga4gh:" namespace, if it has one
Unprefixed(id) ==
    IF Len(id) >= 6 /\ \A i \in 1..6 : id[i] = Ga4ghPrefix[i]
    THEN [i \in 1..(Len(id) - 6) |-> id[i + 6]]
    ELSE id

\* the leading token: what stands before the first "." (all of s without one)
LeadingToken(s) ==
    LET dots == {i \in 1..Len(s) : s[i] = "."}
        n == IF dots = {} THEN Len(s)
             ELSE (CHOOSE i \in dots : \A j \in dots : i <= j) - 1
    IN  [i \in 1..n |-> s[i]]

\* the tokens of the closed enumeration VariationType: Allele alone
RecognizedTokens == {<<"V", "A">>}

Unrecognized(id) == LeadingToken(Unprefixed(id)) \notin RecognizedTokens

\* C11: for an identifier whose leading token, after the optional "ga4gh:"
\* is taken off, is not a recognized variation type, vrs_id_to_vrsix returns
\* the error value Err(VcfError::TmpErr), which carries nothing of the input.
C11_UnrecognizedTypeIsError ==
    (cx_out # NotCompacted /\ Unrecognized(cx_id)) =>
        cx_out = [ok |-> FALSE, v |-> <<>>, err |-> "TmpErr"]

C11_Witness ==
    /\ cx_id = CnXyz
    /\ cx_out = [ok |-> FALSE, v |-> <<>>, err |-> "TmpErr"]

\* C12: whichever way an array of int32 values is held, as native integers or
\* as the strings of their base-10 text, get_vrs_pos and get_int_info_field
\* both return Ok of just those values in their order; so the two
\* representations of one array give the same sequence.
C12_NumericExtractionSameForBothForms ==
    /\ ex_pos # NotExtracted => ex_pos = OkRes(ex_values)
    /\ ex_int # NotExtracted => ex_int = OkRes(ex_values)

\* ["10","20"] gives [10,20]
C12_Witness ==
    /\ ex_field = Arr("String", <<StrE(<<"1", "0">>), StrE(<<"2", "0">>)>>)
    /\ ex_pos = OkRes(<<10, 20>>)
    /\ ex_int = OkRes(<<10, 20>>)

====
